---- MODULE Spec2Model ----
(***************************************************************************)
(* Model of the `mark` image tool: the dithering engine of                 *)
(* mark/src/dither.rs (difference metrics, Palette::nearest, the four      *)
(* quantization algorithms), the pixel helpers of mark/src/util.rs, the    *)
(* black/white transform of mark/src/bw.rs and the command line program    *)
(* of mark-bin/src/main.rs.                                                *)
(*                                                                         *)
(* Numbers.  A device channel is an integer 0..255.  A working colour      *)
(* channel (f32 in the code) is kept as an exact fixed-point integer       *)
(* counted in steps of 1/(255*Unit), so 1.0 is U8Max*Unit.  Unit is a      *)
(* multiple of both kernel denominators (16 and 42), hence every           *)
(* error*weight product of the two diffusion kernels is exact.  f32        *)
(* rounding noise is not modelled.                                         *)
(*                                                                         *)
(* Colour types.  Pixel arithmetic is modelled for the working type Srgb,  *)
(* where into_color is the identity and only the u8 <-> f32 format         *)
(* conversion does work, and for the metrics that are computed on the      *)
(* channels directly (Euclid, Manhattan and their clamped forms).  The     *)
(* other seven colour types and the Lab based metrics are bound by the     *)
(* dispatch exactly as in the code, but their conversion formulas belong   *)
(* to the palette crate and a run bound to them is not stepped through.    *)
(* The Cielab and Oklab methods of bw are modelled between their two       *)
(* conversions, on the Lab colour itself.  DiffManhattanSquare is the      *)
(* metric of the earlier snapshot (src/dither.rs); it is reached by a      *)
(* direct diff call only.                                                  *)
(***************************************************************************)
EXTENDS Integers, Sequences, FiniteSets, TLC

VARIABLES
    pc,         \* control position
    entry,      \* which entry point is exercised: "main", "lib", "nearest",
                \* "to_bw", "diff"
    args,       \* raw command line (main)
    file,       \* content of the input file (main)
    cmd,        \* parsed command (main)
    image,      \* the raster owned by the running algorithm
    input,      \* the raster as it was handed to the run
    palette,    \* Palette<C>.colors
    C, D, A,    \* bound colour type, difference type, algorithm type
    x, y,       \* loop position
    k,          \* number of the next diffuse_error call at (x,y)
    error,      \* the error term of the current pixel
    rng,        \* state of the generator of AlgoRandom::run
    queries,    \* number of Palette::nearest calls made so far
    written,    \* save_image has written the output
    first_out,  \* result of the previous run on the same input (lib)
    runs,       \* number of runs started (lib)
    target,     \* argument of a direct call (nearest, to_bw, diff)
    ret         \* value returned by a direct call (nearest, to_bw, diff)

vars == <<pc, entry, args, file, cmd, image, input, palette, C, D, A, x, y, k,
          error, rng, queries, written, first_out, runs, target, ret>>

----------------------------------------------------------------------------
(* Bounds of the model *)

\* largest raster width and height explored
MaxDim == 3

\* number of pixel patterns per raster size
NumPatterns == 2

\* number of times the library harness runs an algorithm on the same input
MaxRuns == 2

----------------------------------------------------------------------------
(* Program constants *)

\* u8::MAX, the largest device channel value
U8Max == 255

\* denominator of the Floyd-Steinberg weights
FSBase == 16

\* denominator of the Stucki weights (`let base = 42.`)
StuckiBase == 42

\* seed passed to SmallRng::seed_from_u64
Seed == 0

\* fixed-point steps per 1/255: the least common multiple of the two bases
Unit == FSBase * (StuckiBase \div 2)

\* 1.0 in fixed-point steps
One == U8Max * Unit

----------------------------------------------------------------------------
(* Wide non-negative numbers: TLC integers are 32 bit, a squared distance  *)
(* is not.  A wide number is hi * WideBase + lo with 0 <= lo < WideBase.   *)

WideLimb == 2^10
WideBase == WideLimb * WideLimb

Abs(n) == IF n < 0 THEN -n ELSE n

WNorm(n) == [hi |-> n \div WideBase, lo |-> n % WideBase]

WAdd(a, b) ==
    [hi |-> a.hi + b.hi + ((a.lo + b.lo) \div WideBase),
     lo |-> (a.lo + b.lo) % WideBase]

\* d * d for |d| < WideBase
WSquare(d) ==
    LET ad  == Abs(d)
        dh  == ad \div WideLimb
        dl  == ad % WideLimb
        mid == 2 * dh * dl * WideLimb + dl * dl
    IN  [hi |-> dh * dh + (mid \div WideBase), lo |-> mid % WideBase]

\* f32::total_cmp on two distances: -1 Less, 0 Equal, 1 Greater
total_cmp(a, b) ==
    IF a.hi # b.hi THEN (IF a.hi < b.hi THEN -1 ELSE 1)
    ELSE IF a.lo # b.lo THEN (IF a.lo < b.lo THEN -1 ELSE 1)
    ELSE 0

----------------------------------------------------------------------------
(* mark/src/util.rs *)

\* Srgb::<u8>::into_format::<f32>() of one channel: v / 255
IntoF32(v) == v * Unit

\* a conversion that rounds to a whole number and keeps its low eight bits
IntoU8Wrapping(c) ==
    LET q == c \div Unit
        r == c % Unit
        n == IF 2 * r < Unit THEN q
             ELSE IF 2 * r > Unit THEN q + 1
             ELSE IF q % 2 = 0 THEN q ELSE q + 1
    IN  n % (U8Max + 1)

\* Srgb::<f32>::into_format::<u8>() of one channel: scale by 255, cap at
\* 255, round to nearest (ties to even), negative values saturate to 0
IntoU8(c) ==
    LET scaled == IF c > One THEN One ELSE c
        q == scaled \div Unit
        r == scaled % Unit
    IN  IF scaled <= 0 THEN 0
        ELSE IF 2 * r < Unit THEN q
        ELSE IF 2 * r > Unit THEN q + 1
        ELSE IF q % 2 = 0 THEN q ELSE q + 1

pixel_to_srgb(pixel) == <<IntoF32(pixel[1]), IntoF32(pixel[2]), IntoF32(pixel[3])>>

update_pixel_with_srgb_alpha(pixel, srgb) ==
    <<IntoU8(srgb[1]), IntoU8(srgb[2]), IntoU8(srgb[3]), U8Max>>

update_pixel_with_srgb(pixel, srgb) ==
    <<IntoU8(srgb[1]), IntoU8(srgb[2]), IntoU8(srgb[3]), pixel[4]>>

\* the colour types whose conversion from and to Srgb is modelled
ModelledTypes == {"Srgb"}

\* Srgb -> C
IntoColor(Ct, srgb) == CASE Ct = "Srgb" -> srgb

\* C -> Srgb
IntoSrgb(Ct, color) == CASE Ct = "Srgb" -> color

pixel_to_color(Ct, pixel) == IntoColor(Ct, pixel_to_srgb(pixel))

update_pixel_keep(Ct, pixel, color) == pixel

update_pixel_with_color(Ct, pixel, color) ==
    update_pixel_with_srgb(pixel, IntoSrgb(Ct, color))

----------------------------------------------------------------------------
(* mark/src/dither.rs: colour differences *)

\* the difference types whose arithmetic is modelled
ModelledDiffs == {"DiffEuclid", "DiffClamp<DiffEuclid>",
                  "DiffManhattan", "DiffClamp<DiffManhattan>"}

ClampChannel(c) == IF c < 0 THEN 0 ELSE IF c > One THEN One ELSE c

\* Clamp::clamp of an Srgb colour: every channel into [0.0, 1.0]
Clamp(color) == <<ClampChannel(color[1]), ClampChannel(color[2]), ClampChannel(color[3])>>

\* DiffEuclid::diff.  The value carried is `squared`; the final sqrt is
\* strictly increasing on it and the result is only ever compared.
DiffEuclid(a, b) ==
    WAdd(WAdd(WSquare(a[1] - b[1]), WSquare(a[2] - b[2])), WSquare(a[3] - b[3]))

DiffManhattan(a, b) ==
    WNorm(Abs(a[1] - b[1]) + Abs(a[2] - b[2]) + Abs(a[3] - b[3]))

\* Whole numbers beyond the range of WAdd: a magnitude is a tuple of limbs
\* below WideLimb, lowest limb first, without leading zero limbs.
RECURSIVE Carry(_, _)
Carry(c, carry) ==
    IF c = <<>>
    THEN IF carry = 0 THEN <<>>
         ELSE <<carry % WideLimb>> \o Carry(<<>>, carry \div WideLimb)
    ELSE <<(Head(c) + carry) % WideLimb>>
             \o Carry(Tail(c), (Head(c) + carry) \div WideLimb)

RECURSIVE Trim(_)
Trim(m) ==
    IF m # <<>> /\ m[Len(m)] = 0 THEN Trim(SubSeq(m, 1, Len(m) - 1)) ELSE m

\* the magnitude of n >= 0
Limbs(n) == Trim(Carry(<<n>>, 0))

LimbAt(m, i) == IF i >= 1 /\ i <= Len(m) THEN m[i] ELSE 0

RECURSIVE Conv(_, _, _, _)
Conv(a, b, i, j) ==
    IF j > Len(a) THEN 0 ELSE a[j] * LimbAt(b, i - j + 1) + Conv(a, b, i, j + 1)

BigMul(a, b) ==
    IF a = <<>> \/ b = <<>> THEN <<>>
    ELSE Trim(Carry([i \in 1..(Len(a) + Len(b) - 1) |-> Conv(a, b, i, 1)], 0))

BigAdd(a, b) ==
    LET n == IF Len(a) > Len(b) THEN Len(a) ELSE Len(b)
    IN  Trim(Carry([i \in 1..n |-> LimbAt(a, i) + LimbAt(b, i)], 0))

\* -1, 0, 1 as a is less than, equal to, greater than b; i is the limb looked at
RECURSIVE BigCmpFrom(_, _, _)
BigCmpFrom(a, b, i) ==
    IF i = 0 THEN 0
    ELSE IF a[i] # b[i] THEN (IF a[i] < b[i] THEN -1 ELSE 1)
    ELSE BigCmpFrom(a, b, i - 1)

BigCmp(a, b) ==
    IF Len(a) # Len(b) THEN (IF Len(a) < Len(b) THEN -1 ELSE 1)
    ELSE BigCmpFrom(a, b, Len(a))

\* a - b for a >= b: the borrow is the carry of a negative limb
BigSub(a, b) ==
    Trim(Carry([i \in 1..Len(a) |-> a[i] - LimbAt(b, i)], 0))

\* DiffManhattanSquare::diff of the earlier snapshot (src/dither.rs):
\* (a1 - b1).powi(2) + (a2 - b2).powi(2) + (a3 - b3).powi(3).  The value is
\* kept exactly, as a sign and a magnitude counted in steps of 1/One^3, so
\* the two squares are scaled by One.
DiffManhattanSquare(a, b) ==
    LET d1 == Limbs(Abs(a[1] - b[1]))
        d2 == Limbs(Abs(a[2] - b[2]))
        d3 == Limbs(Abs(a[3] - b[3]))
        squares == BigMul(BigAdd(BigMul(d1, d1), BigMul(d2, d2)), Limbs(One))
        cube    == BigMul(BigMul(d3, d3), d3)
    IN  IF a[3] - b[3] >= 0 THEN [neg |-> FALSE, mag |-> BigAdd(squares, cube)]
        ELSE IF BigCmp(cube, squares) = 1
             THEN [neg |-> TRUE, mag |-> BigSub(cube, squares)]
             ELSE [neg |-> FALSE, mag |-> BigSub(squares, cube)]

\* a wrapper that clamps its first operand only
DiffClampFirst(Dt, a, b) ==
    CASE Dt = "DiffEuclid" -> DiffEuclid(a, b)
      [] Dt = "DiffClamp<DiffEuclid>" -> DiffEuclid(Clamp(a), b)
      [] Dt = "DiffManhattan" -> DiffManhattan(a, b)
      [] Dt = "DiffClamp<DiffManhattan>" -> DiffManhattan(Clamp(a), b)
      [] Dt = "DiffManhattanSquare" -> DiffManhattanSquare(a, b)

\* D::diff(a, b) for the bound difference type Dt
Diff(Dt, a, b) ==
    CASE Dt = "DiffEuclid" -> DiffEuclid(a, b)
      [] Dt = "DiffClamp<DiffEuclid>" -> DiffEuclid(Clamp(a), Clamp(b))
      [] Dt = "DiffManhattan" -> DiffManhattan(a, b)
      [] Dt = "DiffClamp<DiffManhattan>" -> DiffManhattan(Clamp(a), Clamp(b))
      [] Dt = "DiffManhattanSquare" -> DiffManhattanSquare(a, b)

----------------------------------------------------------------------------
(* mark/src/dither.rs: Palette *)

NoColor == [ok |-> FALSE, val |-> <<>>]
Some(c) == [ok |-> TRUE, val |-> c]

\* Iterator::min_by over colors[i..]: the accumulator is replaced only when
\* it compares Greater than the next element
RECURSIVE MinBy(_, _, _, _, _)
MinBy(colors, Dt, to, i, best) ==
    IF i > Len(colors) THEN best
    ELSE IF total_cmp(Diff(Dt, best, to), Diff(Dt, colors[i], to)) = 1
         THEN MinBy(colors, Dt, to, i + 1, colors[i])
         ELSE MinBy(colors, Dt, to, i + 1, best)

\* the same scan replacing the accumulator on Equal as well (last minimum)
RECURSIVE MinByLast(_, _, _, _, _)
MinByLast(colors, Dt, to, i, best) ==
    IF i > Len(colors) THEN best
    ELSE IF total_cmp(Diff(Dt, best, to), Diff(Dt, colors[i], to)) >= 0
         THEN MinByLast(colors, Dt, to, i + 1, colors[i])
         ELSE MinByLast(colors, Dt, to, i + 1, best)

nearest_last(colors, Dt, to) ==
    IF Len(colors) = 0 THEN NoColor
    ELSE Some(MinByLast(colors, Dt, to, 2, colors[1]))

nearest_or_target(colors, Dt, to) ==
    IF Len(colors) = 0 THEN Some(to)
    ELSE Some(MinBy(colors, Dt, to, 2, colors[1]))

\* Palette::nearest: NoColor stands for the panic "palette was empty"
nearest(colors, Dt, to) ==
    IF Len(colors) = 0 THEN NoColor
    ELSE Some(MinBy(colors, Dt, to, 2, colors[1]))

----------------------------------------------------------------------------
(* image::RgbaImage: width, height and the row-major pixel buffer; a pixel *)
(* is <<r, g, b, a>>.                                                      *)

\* position of pixel (px, py) in the buffer
Index(img, px, py) == py * img.width + px + 1

\* `value as u32` of an i32, kept as two 16-bit halves
AsU32(i) == [hi |-> (2^16 + (i \div 2^16)) % 2^16, lo |-> i % 2^16]

\* a lookup that checks the buffer position only: a column past the right
\* edge lands in the next row
get_pixel_flat(img, ux, uy) ==
    IF ux.hi = 0 /\ uy.hi = 0 /\ uy.lo * img.width + ux.lo < img.width * img.height
    THEN uy.lo * img.width + ux.lo + 1
    ELSE 0

\* a lookup that pulls an outside coordinate back to the nearest edge pixel
get_pixel_clamped(img, ux, uy) ==
    IF img.width = 0 \/ img.height = 0 THEN 0
    ELSE LET cx == IF ux.hi = 0 /\ ux.lo < img.width THEN ux.lo ELSE img.width - 1
             cy == IF uy.hi = 0 /\ uy.lo < img.height THEN uy.lo ELSE img.height - 1
         IN  cy * img.width + cx + 1

\* ImageBuffer::get_pixel_mut_checked: the buffer position of (ux, uy), or 0
\* for None, which is returned unless ux < width and uy < height
get_pixel_mut_checked(img, ux, uy) ==
    IF ux.hi = 0 /\ uy.hi = 0 /\ ux.lo < img.width /\ uy.lo < img.height
    THEN uy.lo * img.width + ux.lo + 1
    ELSE 0

----------------------------------------------------------------------------
(* mark/src/dither.rs: arithmetic on colours and diffuse_error *)

add(a, b) == <<a[1] + b[1], a[2] + b[2], a[3] + b[3]>>

sub(a, b) == <<a[1] - b[1], a[2] - b[2], a[3] - b[3]>>

\* mul(a, num / den); exact because a is an error term, a multiple of Unit
mul(a, num, den) == <<(a[1] * num) \div den, (a[2] * num) \div den, (a[3] * num) \div den>>

\* the same call adding onto the colour the neighbour had in the raster as
\* it was handed to the run, not onto the value stored now
diffuse_error_from_input(Ct, img, err, px, py, dx, dy, num, den) ==
    IF px = 0 /\ dx < 0 THEN img
    ELSE IF py = 0 /\ dy < 0 THEN img
    ELSE LET ux  == AsU32(px + dx)
             uy  == AsU32(py + dy)
             idx == get_pixel_mut_checked(img, ux, uy)
         IN  IF idx = 0 THEN img
             ELSE LET color == pixel_to_color(Ct, input.data[idx])
                      sum   == add(color, mul(err, num, den))
                  IN  [img EXCEPT !.data[idx] = update_pixel_with_color(Ct, @, sum)]

diffuse_error(Ct, img, err, px, py, dx, dy, num, den) ==
    IF px = 0 /\ dx < 0 THEN img
    ELSE IF py = 0 /\ dy < 0 THEN img
    ELSE LET ux  == AsU32(px + dx)
             uy  == AsU32(py + dy)
             idx == get_pixel_mut_checked(img, ux, uy)
         IN  IF idx = 0 THEN img
             ELSE LET color == pixel_to_color(Ct, img.data[idx])
                      sum   == add(color, mul(err, num, den))
                  IN  [img EXCEPT !.data[idx] = update_pixel_with_color(Ct, @, sum)]

Tap(dx, dy, num) == [dx |-> dx, dy |-> dy, num |-> num]

\* four calls of which the first goes to the left neighbour, a pixel of the
\* same row that has been quantized already
FloydSteinbergKernelBackward ==
    <<Tap(-1, 0, 7), Tap(-1, 1, 3), Tap(0, 1, 5), Tap(1, 1, 1)>>

\* the four diffuse_error calls of AlgoFloydSteinberg::run, in call order
FloydSteinbergKernel ==
    <<Tap(1, 0, 7), Tap(-1, 1, 3), Tap(0, 1, 5), Tap(1, 1, 1)>>

\* twelve calls with the numerators of the two nearest neighbours in the
\* next row exchanged with those of the row after it
StuckiKernelSwapped ==
    <<Tap(1, 0, 8), Tap(2, 0, 4),
      Tap(-2, 1, 1), Tap(-1, 1, 2), Tap(0, 1, 4), Tap(1, 1, 2), Tap(2, 1, 1),
      Tap(-2, 2, 2), Tap(-1, 2, 4), Tap(0, 2, 8), Tap(1, 2, 4), Tap(2, 2, 2)>>

\* the twelve diffuse_error calls of AlgoStucki::run, in call order
StuckiKernel ==
    <<Tap(1, 0, 8), Tap(2, 0, 4),
      Tap(-2, 1, 2), Tap(-1, 1, 4), Tap(0, 1, 8), Tap(1, 1, 4), Tap(2, 1, 2),
      Tap(-2, 2, 1), Tap(-1, 2, 2), Tap(0, 2, 4), Tap(1, 2, 2), Tap(2, 2, 1)>>

Kernel(At) ==
    CASE At = "AlgoFloydSteinberg" -> FloydSteinbergKernel
      [] At = "AlgoStucki" -> StuckiKernel

Base(At) ==
    CASE At = "AlgoFloydSteinberg" -> FSBase
      [] At = "AlgoStucki" -> StuckiBase

----------------------------------------------------------------------------
(* rand::rngs::SmallRng, reduced to what the engine relies on: a state, a  *)
(* deterministic step, and a sample computed from the state.  The real     *)
(* generator is wider; the 16-bit congruential generator stands in for it. *)

RngMod == 2^16

NextRng(s) == (s * 25173 + 13849) % RngMod

\* a generator that outlives the run: whatever state the last run left
seed_shared(n) == rng

seed_from_u64(n) == NextRng(n % RngMod)

\* random_range(-range_radius..=range_radius) with range_radius = 1.0: one
\* of -1.0, -0.5, 0.0, 0.5, 1.0, taken from the high bits of the state
Sample(s) == (((s \div 2^8) % 5) - 2) * (One \div 2)

----------------------------------------------------------------------------
(* mark/src/bw.rs *)

\* the methods whose arithmetic is modelled (the other three go through the
\* transfer function or the Lab/Oklab formulas of the palette crate)
ModelledMethods == {"SrgbAverage", "Hsl", "Hsv"}

Max3(c) == LET m == IF c[1] > c[2] THEN c[1] ELSE c[2] IN IF m > c[3] THEN m ELSE c[3]

Min3(c) == LET m == IF c[1] < c[2] THEN c[1] ELSE c[2] IN IF m < c[3] THEN m ELSE c[3]

\* Method::to_bw.  Hsl with saturation 0 converts back to (l, l, l) with
\* l = (max + min) / 2; Hsv with saturation 0 to (v, v, v) with v = max.
to_bw(method, pixel) ==
    CASE method = "SrgbAverage" ->
             LET value == (pixel[1] + pixel[2] + pixel[3]) \div 3
             IN  <<value, value, value>>
      [] method = "Hsl" ->
             LET l == (Max3(pixel) + Min3(pixel)) \div 2 IN <<l, l, l>>
      [] method = "Hsv" ->
             LET v == Max3(pixel) IN <<v, v, v>>

\* The Cielab and Oklab arms of Method::to_bw between their two into_color
\* calls: the assignments to pixel.a and pixel.b.  The pixel is a Lab or
\* Oklab colour [l, a, b]; the literal 0.5 is One \div 2.
to_bw_lab(method, pixel) ==
    CASE method = "Cielab" -> [pixel EXCEPT !.a = One \div 2, !.b = One \div 2]
      [] method = "Oklab" -> [pixel EXCEPT !.a = 0, !.b = 0]

----------------------------------------------------------------------------
(* mark-bin/src/main.rs: the command line *)

\* A text is a tuple of characters.
HexDigits == {"0", "1", "2", "3", "4", "5", "6", "7", "8", "9",
              "a", "b", "c", "d", "e", "f", "A", "B", "C", "D", "E", "F"}

\* char::is_ascii_hexdigit
is_ascii_hexdigit(ch) == ch \in HexDigits

\* char::to_digit(16) of a hexadecimal digit
HexValue(ch) ==
    CASE ch \in {"0", "1", "2", "3", "4", "5", "6", "7", "8", "9"} ->
             CHOOSE n \in 0..9 : <<"0", "1", "2", "3", "4", "5", "6", "7", "8", "9">>[n + 1] = ch
      [] ch \in {"a", "A"} -> 10
      [] ch \in {"b", "B"} -> 11
      [] ch \in {"c", "C"} -> 12
      [] ch \in {"d", "D"} -> 13
      [] ch \in {"e", "E"} -> 14
      [] ch \in {"f", "F"} -> 15

\* length in bytes of the UTF-8 encoding of one character
Utf8Len(ch) == IF ch = "é" THEN 2 ELSE 1

\* str::len: the length in bytes
RECURSIVE StrLen(_)
StrLen(s) == IF s = <<>> THEN 0 ELSE Utf8Len(Head(s)) + StrLen(Tail(s))

Ok(v) == [ok |-> TRUE, val |-> v]
Err == [ok |-> FALSE, val |-> <<>>]

\* u8::from_str_radix(s, 16) of a two byte slice: an optional "+" and then
\* hexadecimal digits only
from_str_radix(s) ==
    IF s[1] = "+"
    THEN (IF is_ascii_hexdigit(s[2]) THEN [ok |-> TRUE, val |-> HexValue(s[2])]
          ELSE [ok |-> FALSE, val |-> 0])
    ELSE IF is_ascii_hexdigit(s[1]) /\ is_ascii_hexdigit(s[2])
         THEN [ok |-> TRUE, val |-> 16 * HexValue(s[1]) + HexValue(s[2])]
         ELSE [ok |-> FALSE, val |-> 0]

\* from_str that checks the characters but not the length
from_str_any_length(s) ==
    IF Len(s) < 6 \/ ~(\A i \in 1..Len(s) : is_ascii_hexdigit(s[i])) THEN Err
    ELSE Ok(<<from_str_radix(SubSeq(s, 1, 2)).val,
              from_str_radix(SubSeq(s, 3, 4)).val,
              from_str_radix(SubSeq(s, 5, 6)).val>>)

\* <SrgbColor as FromStr>::from_str
from_str(s) ==
    IF StrLen(s) # 6 THEN Err
    ELSE IF ~(\A i \in 1..Len(s) : is_ascii_hexdigit(s[i])) THEN Err
    ELSE LET r == from_str_radix(SubSeq(s, 1, 2))
             g == from_str_radix(SubSeq(s, 3, 4))
             b == from_str_radix(SubSeq(s, 5, 6))
         IN  IF r.ok /\ g.ok /\ b.ok THEN Ok(<<r.val, g.val, b.val>>) ELSE Err

\* clap::ValueEnum of each enum: the accepted text of every variant
DitherAlgorithmValues ==
    ("threshold" :> "Threshold") @@ ("random" :> "Random") @@
    ("floyd-steinberg" :> "FloydSteinberg") @@ ("stucki" :> "Stucki")

DitherColorSpaceValues ==
    ("srgb" :> "Srgb") @@ ("lin-srgb" :> "LinSrgb") @@ ("cielab" :> "Cielab") @@
    ("cieluv" :> "Cieluv") @@ ("cielch" :> "Cielch") @@ ("oklab" :> "Oklab") @@
    ("okhsl" :> "Okhsl") @@ ("okhsv" :> "Okhsv")

DitherDifferenceValues ==
    ("euclid" :> "Euclid") @@ ("euclid-clamp" :> "EuclidClamp") @@
    ("hy-ab" :> "HyAb") @@ ("hy-ab-clamp" :> "HyAbClamp") @@
    ("ciede2000" :> "Ciede2000") @@ ("ciede2000-clamp" :> "Ciede2000Clamp") @@
    ("manhattan" :> "Manhattan") @@ ("manhattan-clamp" :> "ManhattanClamp")

BwMethodValues ==
    ("srgb-average" :> "SrgbAverage") @@ ("lin-srgb-average" :> "LinSrgbAverage") @@
    ("hsl" :> "Hsl") @@ ("hsv" :> "Hsv") @@ ("cielab" :> "Cielab") @@
    ("oklab" :> "Oklab")

NoArgs == [cmd |-> "", method |-> "", algorithm |-> "", color_space |-> "",
           difference |-> "", palette |-> <<>>]

\* Args::parse: the parsed command, or Err when clap rejects a value
parse(a) ==
    IF a.cmd = "bw"
    THEN IF a.method \in DOMAIN BwMethodValues
         THEN Ok([NoArgs EXCEPT !.cmd = "bw", !.method = BwMethodValues[a.method]])
         ELSE Err
    ELSE IF /\ a.algorithm \in DOMAIN DitherAlgorithmValues
            /\ a.color_space \in DOMAIN DitherColorSpaceValues
            /\ a.difference \in DOMAIN DitherDifferenceValues
            /\ \A i \in 1..Len(a.palette) : from_str(a.palette[i]).ok
         THEN Ok([cmd |-> "dither", method |-> "",
                  algorithm |-> DitherAlgorithmValues[a.algorithm],
                  color_space |-> DitherColorSpaceValues[a.color_space],
                  difference |-> DitherDifferenceValues[a.difference],
                  palette |-> [i \in 1..Len(a.palette) |-> from_str(a.palette[i]).val]])
         ELSE Err

\* the match of DitherCmd::run: the colour type bound for each selection
ColorTypeOf(color_space) ==
    CASE color_space = "Srgb" -> "Srgb"
      [] color_space = "LinSrgb" -> "LinSrgb"
      [] color_space = "Cielab" -> "Lab"
      [] color_space = "Cieluv" -> "Lch"
      [] color_space = "Cielch" -> "Luv"
      [] color_space = "Oklab" -> "Oklab"
      [] color_space = "Okhsl" -> "Okhsl"
      [] color_space = "Okhsv" -> "Okhsv"

\* the match of DitherCmd::run_c: the difference type bound for each selection
DifferenceTypeOf(difference) ==
    CASE difference = "Euclid" -> "DiffEuclid"
      [] difference = "EuclidClamp" -> "DiffClamp<DiffEuclid>"
      [] difference = "HyAb" -> "DiffHyAb"
      [] difference = "HyAbClamp" -> "DiffClamp<DiffHyAb>"
      [] difference = "Ciede2000" -> "DiffCiede2000"
      [] difference = "Ciede2000Clamp" -> "DiffClamp<DiffCiede2000>"
      [] difference = "Manhattan" -> "DiffManhattan"
      [] difference = "ManhattanClamp" -> "DiffClamp<DiffManhattan>"

\* the match of DitherCmd::run_cd: the algorithm type bound for each selection
AlgorithmTypeOf(algorithm) ==
    CASE algorithm = "Threshold" -> "AlgoThreshold"
      [] algorithm = "Random" -> "AlgoRandom"
      [] algorithm = "FloydSteinberg" -> "AlgoFloydSteinberg"
      [] algorithm = "Stucki" -> "AlgoStucki"

\* the palette built by DitherCmd::run_acd from the 8-bit colours
PaletteOf(Ct, colors) ==
    [i \in 1..Len(colors) |-> IntoColor(Ct, pixel_to_srgb(colors[i]))]

----------------------------------------------------------------------------
(* The inputs explored *)

\* the pixel of pattern p at (px, py); the alpha values differ from 255
PatternPixel(p, px, py) ==
    <<(p * 61 + px * 97 + py * 53) % 256,
      (p * 17 + px * 31 + py * 113 + 80) % 256,
      (p * 201 + px * 59 + py * 7 + 160) % 256,
      (p * 100 + px * 7 + py * 3) % 256>>

TestImage(w, h, p) ==
    [width |-> w, height |-> h,
     data |-> [i \in 1..(w * h) |-> PatternPixel(p, (i - 1) % w, (i - 1) \div w)]]

\* every raster of up to MaxDim x MaxDim pixels, rasters without pixels included
TestImages == {TestImage(w, h, p) : w \in 0..MaxDim, h \in 0..MaxDim, p \in 1..NumPatterns}

\* rasters with a pixel that has two columns on either side and two rows
\* below it
WideImages == {TestImage(MaxDim + 2, MaxDim, p) : p \in 1..NumPatterns}

\* no raster: nothing has been loaded
Unloaded == [width |-> -1, height |-> -1, data |-> <<>>]

\* palettes as lists of 8-bit colours, the empty one included
Palettes ==
    { <<>>,
      << <<200, 100, 50>> >>,
      << <<0, 0, 0>>, <<255, 255, 255>> >>,
      << <<0, 0, 0>>, <<200, 0, 0>>, <<0, 200, 0>> >> }

\* targets of a direct nearest call: palette colours, colours half way
\* between two of them, and colours outside [0.0, 1.0]
Targets ==
    { <<IntoF32(r), IntoF32(g), IntoF32(b)>> :
        r \in {-50, 0, 100, 200, 300}, g \in {0, 100, 200}, b \in {0, 50} }

\* pixels as the Cielab and Oklab arms of to_bw see them after the first
\* into_color: lightness and two chroma channels of either sign
LabColors ==
    [l : {0, One \div 4, One, 50 * One},
     a : {-20 * One, -(One \div 4), 0, One \div 2, 30 * One},
     b : {-(One \div 2), 0, One \div 4}]

\* operand pairs of a direct diff call: both, one or none of the two
\* colours inside [0.0, 1.0]
DiffOperands == [a : Targets, b : Targets]

\* decodable input files and one that is not an image
Files ==
    {[ok |-> TRUE, img |-> TestImage(d[1], d[2], 1)] :
        d \in {<<0, 0>>, <<1, 1>>, <<2, 2>>, <<MaxDim, 2>>}}
    \cup {[ok |-> FALSE, img |-> Unloaded]}

T(a, b, c, d, e, f) == <<a, b, c, d, e, f>>

\* the --palette arguments tried: none, well formed ones and malformed ones
PaletteArgs ==
    { <<>>,
      << T("c", "8", "6", "4", "3", "2") >>,
      << T("0", "0", "0", "0", "0", "0"), T("F", "f", "f", "F", "f", "f") >>,
      << T("0", "0", "0", "0", "0", "0"), <<"0", "0", "f", "f">> >>,
      << <<"0", "0", "0", "0", "0", "0", "0">> >>,
      << T("g", "g", "0", "0", "0", "0") >>,
      << T("+", "f", "0", "0", "0", "0") >>,
      << <<"é", "0", "0", "0", "0">> >> }

Bogus == "bogus"

DitherArgs ==
    [cmd : {"dither"}, method : {""},
     algorithm : DOMAIN DitherAlgorithmValues \cup {Bogus},
     color_space : DOMAIN DitherColorSpaceValues \cup {Bogus},
     difference : DOMAIN DitherDifferenceValues \cup {Bogus},
     palette : PaletteArgs]

BwArgs ==
    [cmd : {"bw"}, method : DOMAIN BwMethodValues \cup {Bogus},
     algorithm : {""}, color_space : {""}, difference : {""}, palette : {<<>>}]

NoRet == [ok |-> FALSE, val |-> <<>>]
Zero3 == <<0, 0, 0>>

----------------------------------------------------------------------------
(* Initial states: one per entry point and input *)

\* the program is started with a command line and an input file
InitMain ==
    /\ pc = "parse" /\ entry = "main"
    /\ args \in DitherArgs \cup BwArgs
    /\ file \in Files
    /\ cmd = NoArgs /\ image = Unloaded /\ input = Unloaded
    /\ palette = <<>> /\ C = "" /\ D = "" /\ A = ""
    /\ x = 0 /\ y = 0 /\ k = 0 /\ error = Zero3 /\ rng = 0 /\ queries = 0
    /\ written = FALSE /\ first_out = Unloaded /\ runs = 0
    /\ target = Zero3 /\ ret = NoRet

\* Algorithm::run is called on a raster and a palette
InitLib ==
    /\ pc = "algo" /\ entry = "lib"
    /\ args = NoArgs /\ file = [ok |-> FALSE, img |-> Unloaded] /\ cmd = NoArgs
    /\ image \in TestImages \cup WideImages /\ input = image
    /\ C = "Srgb"
    /\ \E colors \in Palettes : palette = PaletteOf(C, colors)
    /\ D \in ModelledDiffs
    /\ A \in {"AlgoThreshold", "AlgoRandom", "AlgoFloydSteinberg", "AlgoStucki"}
    /\ x = 0 /\ y = 0 /\ k = 0 /\ error = Zero3 /\ rng = 0 /\ queries = 0
    /\ written = FALSE /\ first_out = Unloaded /\ runs = 1
    /\ target = Zero3 /\ ret = NoRet

\* Palette::nearest is called on a palette and a target
InitNearest ==
    /\ pc = "nearest" /\ entry = "nearest"
    /\ args = NoArgs /\ file = [ok |-> FALSE, img |-> Unloaded] /\ cmd = NoArgs
    /\ image = Unloaded /\ input = Unloaded
    /\ C = "Srgb"
    /\ \E colors \in Palettes : palette = PaletteOf(C, colors)
    /\ D \in ModelledDiffs
    /\ A = ""
    /\ x = 0 /\ y = 0 /\ k = 0 /\ error = Zero3 /\ rng = 0 /\ queries = 0
    /\ written = FALSE /\ first_out = Unloaded /\ runs = 0
    /\ target \in Targets /\ ret = NoRet

\* Method::to_bw has converted a pixel to Lab or Oklab
InitToBw ==
    /\ pc = "to_bw" /\ entry = "to_bw"
    /\ args = NoArgs /\ file = [ok |-> FALSE, img |-> Unloaded]
    /\ \E method \in {"Cielab", "Oklab"} :
           cmd = [NoArgs EXCEPT !.cmd = "bw", !.method = method]
    /\ image = Unloaded /\ input = Unloaded
    /\ palette = <<>> /\ C = "" /\ D = "" /\ A = ""
    /\ x = 0 /\ y = 0 /\ k = 0 /\ error = Zero3 /\ rng = 0 /\ queries = 0
    /\ written = FALSE /\ first_out = Unloaded /\ runs = 0
    /\ target \in LabColors /\ ret = NoRet

\* D::diff is called on two colours
InitDiff ==
    /\ pc = "diff" /\ entry = "diff"
    /\ args = NoArgs /\ file = [ok |-> FALSE, img |-> Unloaded] /\ cmd = NoArgs
    /\ image = Unloaded /\ input = Unloaded
    /\ palette = <<>> /\ C = "Srgb"
    /\ D \in ModelledDiffs \cup {"DiffManhattanSquare"}
    /\ A = ""
    /\ x = 0 /\ y = 0 /\ k = 0 /\ error = Zero3 /\ rng = 0 /\ queries = 0
    /\ written = FALSE /\ first_out = Unloaded /\ runs = 0
    /\ target \in DiffOperands /\ ret = NoRet

Init == InitMain \/ InitLib \/ InitNearest \/ InitToBw \/ InitDiff

----------------------------------------------------------------------------
(* Loop bookkeeping shared by the pixel loops: raster order, rows top to   *)
(* bottom and columns left to right within a row.                          *)

HasPixels(img) == img.width > 0 /\ img.height > 0

NextPos(img, px, py) ==
    IF px + 1 < img.width THEN [done |-> FALSE, x |-> px + 1, y |-> py]
    ELSE IF py + 1 < img.height THEN [done |-> FALSE, x |-> 0, y |-> py + 1]
    ELSE [done |-> TRUE, x |-> 0, y |-> 0]

\* move to the next pixel, or leave the loop with pc = after
Advance(after) ==
    LET n == NextPos(image, x, y)
    IN  /\ x' = n.x
        /\ y' = n.y
        /\ pc' = IF n.done THEN after ELSE pc

----------------------------------------------------------------------------
(* mark-bin/src/main.rs: main, Cmd::run, BwCmd::run, DitherCmd::run*       *)

\* let args = Args::parse(): clap ends the process on a rejected value
ParseArgs ==
    /\ pc = "parse"
    /\ LET r == parse(args)
       IN  IF r.ok
           THEN cmd' = r.val /\ pc' = "load"
           ELSE cmd' = cmd /\ pc' = "usage_error"
    /\ UNCHANGED <<entry, args, file, image, input, palette, C, D, A, x, y, k,
                   error, rng, queries, written, first_out, runs, target, ret>>

\* let image = load_image(&args.in): panics on an undecodable file
LoadImage ==
    /\ pc = "load"
    /\ IF file.ok
       THEN image' = file.img /\ input' = file.img /\ pc' = "run"
       ELSE image' = image /\ input' = input /\ pc' = "panic"
    /\ UNCHANGED <<entry, args, file, cmd, palette, C, D, A, x, y, k,
                   error, rng, queries, written, first_out, runs, target, ret>>

\* Cmd::run -> BwCmd::run -> bw::bw: enter the pixel loop
BwCmdRun ==
    /\ pc = "run"
    /\ cmd.cmd = "bw"
    /\ cmd.method \in ModelledMethods
    /\ x' = 0 /\ y' = 0
    /\ pc' = IF HasPixels(image) THEN "bw" ELSE "returned"
    /\ UNCHANGED <<entry, args, file, cmd, image, input, palette, C, D, A, k,
                   error, rng, queries, written, first_out, runs, target, ret>>

\* one iteration of the loop of bw::bw
BwPixel ==
    /\ pc = "bw"
    /\ LET i    == Index(image, x, y)
           srgb == to_bw(cmd.method, pixel_to_srgb(image.data[i]))
       IN  image' = [image EXCEPT !.data[i] = update_pixel_with_srgb(@, srgb)]
    /\ Advance("returned")
    /\ UNCHANGED <<entry, args, file, cmd, input, palette, C, D, A, k,
                   error, rng, queries, written, first_out, runs, target, ret>>

\* Cmd::run -> DitherCmd::run: bind the colour type
DitherCmdRun ==
    /\ pc = "run"
    /\ cmd.cmd = "dither"
    /\ C' = ColorTypeOf(cmd.color_space)
    /\ pc' = "run_c"
    /\ UNCHANGED <<entry, args, file, cmd, image, input, palette, D, A, x, y, k,
                   error, rng, queries, written, first_out, runs, target, ret>>

\* DitherCmd::run_c: bind the difference type
RunC ==
    /\ pc = "run_c"
    /\ D' = DifferenceTypeOf(cmd.difference)
    /\ pc' = "run_cd"
    /\ UNCHANGED <<entry, args, file, cmd, image, input, palette, C, A, x, y, k,
                   error, rng, queries, written, first_out, runs, target, ret>>

\* DitherCmd::run_cd: bind the algorithm type
RunCD ==
    /\ pc = "run_cd"
    /\ A' = AlgorithmTypeOf(cmd.algorithm)
    /\ pc' = "run_acd"
    /\ UNCHANGED <<entry, args, file, cmd, image, input, palette, C, D, x, y, k,
                   error, rng, queries, written, first_out, runs, target, ret>>

\* DitherCmd::run_acd: build the palette and call A::run
RunACD ==
    /\ pc = "run_acd"
    /\ C \in ModelledTypes
    /\ palette' = PaletteOf(C, cmd.palette)
    /\ pc' = "algo"
    /\ UNCHANGED <<entry, args, file, cmd, image, input, C, D, A, x, y, k,
                   error, rng, queries, written, first_out, runs, target, ret>>

\* save_image(&args.out, image)
SaveImage ==
    /\ pc = "returned"
    /\ entry = "main"
    /\ written' = TRUE
    /\ pc' = "exit"
    /\ UNCHANGED <<entry, args, file, cmd, image, input, palette, C, D, A, x, y, k,
                   error, rng, queries, first_out, runs, target, ret>>

----------------------------------------------------------------------------
(* mark/src/dither.rs: the four Algorithm::run *)

\* entry of A::run: the loops start at the first pixel; AlgoRandom::run
\* creates its generator
AlgorithmRun ==
    /\ pc = "algo"
    /\ C \in ModelledTypes
    /\ D \in ModelledDiffs
    /\ x' = 0 /\ y' = 0 /\ k' = 0
    /\ rng' = IF A = "AlgoRandom" THEN seed_from_u64(Seed) ELSE rng
    /\ pc' = IF HasPixels(image) THEN "loop" ELSE "returned"
    /\ UNCHANGED <<entry, args, file, cmd, image, input, palette, C, D, A,
                   error, queries, written, first_out, runs, target, ret>>

\* an iteration that quantizes the pixel plus the error left by the pixel
\* before it and keeps the new error for the next one
ThresholdPixelCarry ==
    /\ pc = "loop"
    /\ A = "AlgoThreshold"
    /\ queries' = queries + 1
    /\ LET i     == Index(image, x, y)
           color == add(pixel_to_color(C, image.data[i]), error)
           near  == nearest(palette, D, color)
       IN  IF near.ok
           THEN /\ image' = [image EXCEPT !.data[i] = update_pixel_with_color(C, @, near.val)]
                /\ error' = sub(color, near.val)
                /\ Advance("returned")
           ELSE /\ pc' = "panic"
                /\ UNCHANGED <<image, x, y, error>>
    /\ UNCHANGED <<entry, args, file, cmd, input, palette, C, D, A, k,
                   rng, written, first_out, runs, target, ret>>

\* one iteration of the loop of AlgoThreshold::run
ThresholdPixel ==
    /\ pc = "loop"
    /\ A = "AlgoThreshold"
    /\ queries' = queries + 1
    /\ LET i     == Index(image, x, y)
           color == pixel_to_color(C, image.data[i])
           near  == nearest(palette, D, color)
       IN  IF near.ok
           THEN /\ image' = [image EXCEPT !.data[i] = update_pixel_with_color(C, @, near.val)]
                /\ Advance("returned")
           ELSE /\ pc' = "panic"
                /\ UNCHANGED <<image, x, y>>
    /\ UNCHANGED <<entry, args, file, cmd, input, palette, C, D, A, k,
                   error, rng, written, first_out, runs, target, ret>>

\* an iteration that draws once and adds the same offset to all three
\* channels
RandomPixelOneDraw ==
    /\ pc = "loop"
    /\ A = "AlgoRandom"
    /\ queries' = queries + 1
    /\ LET i     == Index(image, x, y)
           s1    == NextRng(rng)
           color == add(pixel_to_color(C, image.data[i]),
                        <<Sample(s1), Sample(s1), Sample(s1)>>)
           near  == nearest(palette, D, color)
       IN  /\ rng' = s1
           /\ IF near.ok
              THEN /\ image' = [image EXCEPT !.data[i] = update_pixel_with_color(C, @, near.val)]
                   /\ Advance("returned")
              ELSE /\ pc' = "panic"
                   /\ UNCHANGED <<image, x, y>>
    /\ UNCHANGED <<entry, args, file, cmd, input, palette, C, D, A, k,
                   error, written, first_out, runs, target, ret>>

\* one iteration of the loop of AlgoRandom::run: three draws, channel 0 first
RandomPixel ==
    /\ pc = "loop"
    /\ A = "AlgoRandom"
    /\ queries' = queries + 1
    /\ LET i     == Index(image, x, y)
           s1    == NextRng(rng)
           s2    == NextRng(s1)
           s3    == NextRng(s2)
           color == add(pixel_to_color(C, image.data[i]),
                        <<Sample(s1), Sample(s2), Sample(s3)>>)
           near  == nearest(palette, D, color)
       IN  /\ rng' = s3
           /\ IF near.ok
              THEN /\ image' = [image EXCEPT !.data[i] = update_pixel_with_color(C, @, near.val)]
                   /\ Advance("returned")
              ELSE /\ pc' = "panic"
                   /\ UNCHANGED <<image, x, y>>
    /\ UNCHANGED <<entry, args, file, cmd, input, palette, C, D, A, k,
                   error, written, first_out, runs, target, ret>>

\* the head of one iteration of an error diffusion loop: quantize (x, y)
VisitPixel(alg) ==
    /\ pc = "loop"
    /\ A = alg
    /\ queries' = queries + 1
    /\ LET i      == Index(image, x, y)
           before == pixel_to_color(C, image.data[i])
           after  == nearest(palette, D, before)
       IN  IF after.ok
           THEN /\ error' = sub(before, after.val)
                /\ image' = [image EXCEPT !.data[i] = update_pixel_with_color(C, @, after.val)]
                /\ k' = 1
                /\ pc' = "diffuse"
           ELSE /\ pc' = "panic"
                /\ UNCHANGED <<error, image, k>>
    /\ UNCHANGED <<entry, args, file, cmd, input, palette, C, D, A, x, y,
                   rng, written, first_out, runs, target, ret>>

\* the k-th diffuse_error call of the iteration at (x, y)
DiffusePixel(alg) ==
    /\ pc = "diffuse"
    /\ A = alg
    /\ LET t == Kernel(alg)[k]
       IN  image' = diffuse_error(C, image, error, x, y, t.dx, t.dy, t.num, Base(alg))
    /\ IF k < Len(Kernel(alg))
       THEN /\ k' = k + 1
            /\ UNCHANGED <<pc, x, y>>
       ELSE /\ k' = 0
            /\ LET n == NextPos(image, x, y)
               IN  /\ x' = n.x
                   /\ y' = n.y
                   /\ pc' = IF n.done THEN "returned" ELSE "loop"
    /\ UNCHANGED <<entry, args, file, cmd, input, palette, C, D, A,
                   error, rng, queries, written, first_out, runs, target, ret>>

FloydSteinbergVisit == VisitPixel("AlgoFloydSteinberg")

FloydSteinbergDiffuse == DiffusePixel("AlgoFloydSteinberg")

StuckiVisit == VisitPixel("AlgoStucki")

StuckiDiffuse == DiffusePixel("AlgoStucki")

\* AlgoThreshold::run as a function of its arguments (non-empty palette)
ThresholdOutput(Ct, Dt, colors, img) ==
    [img EXCEPT !.data =
        [i \in 1..(img.width * img.height) |->
            update_pixel_with_color(Ct, img.data[i],
                nearest(colors, Dt, pixel_to_color(Ct, img.data[i])).val)]]

----------------------------------------------------------------------------
(* Callers of the library *)

\* the caller keeps the result and runs the same algorithm again on the
\* same raster and palette
Rerun ==
    /\ pc = "returned"
    /\ entry = "lib"
    /\ runs < MaxRuns
    /\ first_out' = image
    /\ image' = input
    /\ runs' = runs + 1
    /\ queries' = 0
    /\ pc' = "algo"
    /\ UNCHANGED <<entry, args, file, cmd, input, palette, C, D, A, x, y, k,
                   error, rng, written, target, ret>>

\* palette.nearest::<D>(target)
CallNearest ==
    /\ pc = "nearest"
    /\ queries' = queries + 1
    /\ LET near == nearest(palette, D, target)
       IN  IF near.ok
           THEN ret' = near /\ pc' = "nearest_ret"
           ELSE ret' = ret /\ pc' = "panic"
    /\ UNCHANGED <<entry, args, file, cmd, image, input, palette, C, D, A, x, y, k,
                   error, rng, written, first_out, runs, target>>

\* the Cielab or Oklab arm of method.to_bw(srgb), from the converted pixel
\* to the colour handed to the second into_color
ToBwLab ==
    /\ pc = "to_bw"
    /\ ret' = Some(to_bw_lab(cmd.method, target))
    /\ pc' = "to_bw_ret"
    /\ UNCHANGED <<entry, args, file, cmd, image, input, palette, C, D, A, x, y, k,
                   error, rng, queries, written, first_out, runs, target>>

\* D::diff(a, b)
CallDiff ==
    /\ pc = "diff"
    /\ ret' = Some(Diff(D, target.a, target.b))
    /\ pc' = "diff_ret"
    /\ UNCHANGED <<entry, args, file, cmd, image, input, palette, C, D, A, x, y, k,
                   error, rng, queries, written, first_out, runs, target>>

----------------------------------------------------------------------------

Next ==
    \/ ParseArgs
    \/ LoadImage
    \/ BwCmdRun
    \/ BwPixel
    \/ DitherCmdRun
    \/ RunC
    \/ RunCD
    \/ RunACD
    \/ SaveImage
    \/ AlgorithmRun
    \/ ThresholdPixel
    \/ RandomPixel
    \/ FloydSteinbergVisit
    \/ FloydSteinbergDiffuse
    \/ StuckiVisit
    \/ StuckiDiffuse
    \/ Rerun
    \/ CallNearest
    \/ ToBwLab
    \/ CallDiff

Spec == Init /\ [][Next]_vars

----------------------------------------------------------------------------
(* Properties *)

\* a <= b on wide numbers
WLeq(a, b) == a.hi < b.hi \/ (a.hi = b.hi /\ a.lo <= b.lo)

Algorithms == {"AlgoThreshold", "AlgoRandom", "AlgoFloydSteinberg", "AlgoStucki"}

\* C1: Palette::nearest returns an entry at minimal distance from the
\* target, the earliest entry among those at that distance, and the target
\* itself when the target is an entry of the palette.
C1_NearestIsFirstMinimum ==
    pc = "nearest_ret" =>
        /\ ret.ok
        /\ \E i \in 1..Len(palette) :
              /\ ret.val = palette[i]
              /\ \A j \in 1..Len(palette) :
                     WLeq(Diff(D, palette[i], target), Diff(D, palette[j], target))
              /\ \A j \in 1..(i - 1) :
                     Diff(D, palette[j], target) # Diff(D, palette[i], target)
        /\ (\E j \in 1..Len(palette) : palette[j] = target) => ret.val = target

\* a call returned the first of two different entries that are both at the
\* minimal distance
C1_Witness ==
    /\ pc = "nearest_ret"
    /\ Len(palette) >= 2
    /\ palette[1] # palette[2]
    /\ Diff(D, palette[1], target) = Diff(D, palette[2], target)
    /\ \A j \in 1..Len(palette) :
           WLeq(Diff(D, palette[1], target), Diff(D, palette[j], target))
    /\ ret.val = palette[1]

\* C2: a diffuse_error call for pixel (x, y) and offset (dx, dy) writes the
\* pixel (x+dx, y+dy) and no other when that position is inside the raster,
\* and changes nothing when it is outside (left of column 0, right of
\* column W-1 or below row H-1): a dropped target never wraps around.
C2_DiffusionWritesOnlyItsTarget ==
    [][ pc = "diffuse" =>
          LET t  == Kernel(A)[k]
              tx == x + t.dx
              ty == y + t.dy
              at == ty * image.width + tx + 1
          IN  IF tx >= 0 /\ tx < image.width /\ ty >= 0 /\ ty < image.height
              THEN /\ image'.width = image.width
                   /\ image'.height = image.height
                   /\ \A i \in 1..(image.width * image.height) :
                          i # at => image'.data[i] = image.data[i]
                   /\ image'.data[at] =
                          update_pixel_with_color(C, image.data[at],
                              add(pixel_to_color(C, image.data[at]),
                                  mul(error, t.num, Base(A))))
              ELSE image' = image
      ]_vars

\* the Stucki call with dx = -2 has just been made at column 1, in a row
\* that has a row below it, with an error to hand on
C2_Witness ==
    /\ pc = "diffuse"
    /\ A = "AlgoStucki"
    /\ x = 1
    /\ k = 4
    /\ y + 1 < image.height
    /\ error # Zero3

\* C3: the raster keeps its width and height and every pixel keeps its
\* alpha value, throughout every dither run and the black/white transform.
C3_DimensionsAndAlphaPreserved ==
    image # Unloaded =>
        /\ image.width = input.width
        /\ image.height = input.height
        /\ \A i \in 1..(image.width * image.height) :
               image.data[i][4] = input.data[i][4]

\* a Stucki run has returned a raster that differs from its input in a
\* pixel whose alpha is not 255
C3_Witness ==
    /\ pc = "returned"
    /\ A = "AlgoStucki"
    /\ \E i \in 1..(image.width * image.height) :
           /\ image.data[i] # input.data[i]
           /\ input.data[i][4] # U8Max

\* the working colour type that belongs to each colour-space selection
ColorTypeNamed(color_space) ==
    CASE color_space = "Srgb" -> "Srgb"
      [] color_space = "LinSrgb" -> "LinSrgb"
      [] color_space = "Cielab" -> "Lab"
      [] color_space = "Cielch" -> "Lch"
      [] color_space = "Cieluv" -> "Luv"
      [] color_space = "Oklab" -> "Oklab"
      [] color_space = "Okhsl" -> "Okhsl"
      [] color_space = "Okhsv" -> "Okhsv"

\* the metric named by each difference selection: the metric itself, or
\* the metric behind the clamp decorator for a ...Clamp selection
DifferenceTypeNamed(difference) ==
    LET metric == [Euclid |-> "DiffEuclid", HyAb |-> "DiffHyAb",
                   Ciede2000 |-> "DiffCiede2000", Manhattan |-> "DiffManhattan"]
        clamped == [EuclidClamp |-> "Euclid", HyAbClamp |-> "HyAb",
                    Ciede2000Clamp |-> "Ciede2000", ManhattanClamp |-> "Manhattan"]
    IN  IF difference \in DOMAIN metric THEN metric[difference]
        ELSE [kind |-> "DiffClamp", of |-> metric[clamped[difference]]]

\* the parts of a bound difference type: the decorator and the metric
DifferenceParts(Dt) ==
    CASE Dt = "DiffClamp<DiffEuclid>" -> [kind |-> "DiffClamp", of |-> "DiffEuclid"]
      [] Dt = "DiffClamp<DiffHyAb>" -> [kind |-> "DiffClamp", of |-> "DiffHyAb"]
      [] Dt = "DiffClamp<DiffCiede2000>" -> [kind |-> "DiffClamp", of |-> "DiffCiede2000"]
      [] Dt = "DiffClamp<DiffManhattan>" -> [kind |-> "DiffClamp", of |-> "DiffManhattan"]
      [] OTHER -> Dt

\* C4: DitherCmd::run binds the colour type of the selected colour space
\* (Cielch -> Lch, Cieluv -> Luv, ...), the selected difference and the
\* selected algorithm.
C4_DispatchBindsSelection ==
    (entry = "main" /\ cmd.cmd = "dither") =>
        /\ C # "" => C = ColorTypeNamed(cmd.color_space)
        /\ D # "" => DifferenceParts(D) = DifferenceTypeNamed(cmd.difference)
        /\ A # "" => A = "Algo" \o cmd.algorithm

\* C5: a dither run that is given an empty palette never returns a raster,
\* whatever the algorithm and the size of the raster.
C5_EmptyPaletteNeverReturns ==
    (A \in Algorithms /\ Len(palette) = 0) => pc \notin {"returned", "exit"}

\* C6: a nearest query on an empty palette panics; no colour is returned
\* and no second query is made.
C6_EmptyPaletteQueryPanics ==
    (Len(palette) = 0 /\ queries > 0) =>
        /\ pc = "panic"
        /\ ret = NoRet
        /\ queries = 1

\* a direct query on the empty palette has panicked
C6_Witness ==
    /\ entry = "nearest"
    /\ pc = "panic"
    /\ Len(palette) = 0
    /\ queries = 1
    /\ target # Zero3

\* C7: on a 1x1 raster Floyd-Steinberg and Stucki return what Threshold
\* returns.
C7_OneByOneDiffusionIsThreshold ==
    (/\ pc = "returned"
     /\ A \in {"AlgoFloydSteinberg", "AlgoStucki"}
     /\ image.width = 1
     /\ image.height = 1)
    => image = ThresholdOutput(C, D, palette, input)

\* a diffusion run on a 1x1 raster has returned after dropping an error
\* that was not zero
C7_Witness ==
    /\ pc = "returned"
    /\ A \in {"AlgoFloydSteinberg", "AlgoStucki"}
    /\ image.width = 1
    /\ image.height = 1
    /\ error # Zero3
    /\ image # input

\* C8: Threshold with a palette of one colour returns a raster whose every
\* pixel has the 8-bit value of that colour as its RGB.
C8_SingleColourThreshold ==
    (pc = "returned" /\ A = "AlgoThreshold" /\ Len(palette) = 1) =>
        \A i \in 1..(image.width * image.height) :
            \A c \in 1..3 :
                image.data[i][c] = IntoU8(IntoSrgb(C, palette[1])[c])

\* Threshold has returned a changed raster of several pixels under a
\* palette of one colour
C8_Witness ==
    /\ pc = "returned"
    /\ A = "AlgoThreshold"
    /\ Len(palette) = 1
    /\ image.width * image.height > 1
    /\ image # input

\* C9: a second run of AlgoRandom::run on the same raster with the same
\* palette and metric returns the same raster as the first.
C9_RandomRunsAgree ==
    (pc = "returned" /\ A = "AlgoRandom" /\ runs >= 2) => image = first_out

\* the second Random run has returned, and the offsets drawn made the
\* result differ from plain thresholding
C9_Witness ==
    /\ pc = "returned"
    /\ A = "AlgoRandom"
    /\ runs = 2
    /\ Len(palette) > 1
    /\ image = first_out
    /\ image # ThresholdOutput(C, D, palette, input)

\* a palette text of exactly six hexadecimal digits
SixHexDigits(s) == Len(s) = 6 /\ \A i \in 1..6 : s[i] \in HexDigits

\* a command line without configuration error
WellFormed(a) ==
    IF a.cmd = "bw" THEN a.method \in DOMAIN BwMethodValues
    ELSE /\ a.algorithm \in DOMAIN DitherAlgorithmValues
         /\ a.color_space \in DOMAIN DitherColorSpaceValues
         /\ a.difference \in DOMAIN DitherDifferenceValues
         /\ \A i \in 1..Len(a.palette) : SixHexDigits(a.palette[i])

\* C10: with a configuration error on the command line the program stops
\* while parsing: no image is loaded, no pixel is processed and nothing is
\* written; and output is written only after the run has returned, with
\* every pixel processed.
C10_ConfigErrorsStopBeforeLoad ==
    entry = "main" =>
        /\ ~WellFormed(args) =>
               /\ pc \in {"parse", "usage_error"}
               /\ image = Unloaded
               /\ queries = 0
               /\ ~written
        /\ written =>
               /\ pc = "exit"
               /\ cmd.cmd = "dither" => queries = image.width * image.height

\* the program has stopped on a palette text of six bytes that is not six
\* hexadecimal digits, everything else being in order
C10_Witness ==
    /\ pc = "usage_error"
    /\ file.ok
    /\ args.cmd = "dither"
    /\ args.algorithm \in DOMAIN DitherAlgorithmValues
    /\ args.color_space \in DOMAIN DitherColorSpaceValues
    /\ args.difference \in DOMAIN DitherDifferenceValues
    /\ \E i \in 1..Len(args.palette) :
           Len(args.palette[i]) = 6 /\ args.palette[i][1] = "+"

\* C11: the Cielab and the Oklab method hand back the converted pixel with
\* both chroma channels a and b set to zero and the lightness unchanged.
C11_LabChromaZeroed ==
    pc = "to_bw_ret" =>
        /\ ret.val.l = target.l
        /\ ret.val.a = 0
        /\ ret.val.b = 0

\* the position after (px, py) in raster order
RasterSucc(img, px, py) ==
    IF px + 1 < img.width THEN <<px + 1, py>> ELSE <<0, py + 1>>

\* one diffusion run seen step by step against a table of taps <<dx, dy,
\* numerator>> over the denominator den: the visit of (x, y) is the
\* (y * width + x + 1)-th query, reads `before` from the stored pixel,
\* writes after = nearest(before) and keeps error = before - after; the k-th
\* diffusion step adds error * numerator / den onto the stored value of the
\* neighbour at its offset when that neighbour is inside the raster and does
\* nothing otherwise; after the last tap the loop moves on in raster order
\* and returns after width * height visits
DiffusionProcedure(taps, den) ==
    LET W == image.width
        H == image.height
        i == y * W + x + 1
    IN  /\ (pc = "loop" /\ pc' = "diffuse") =>
               LET before == pixel_to_color(C, image.data[i])
                   after  == nearest(palette, D, before).val
               IN  /\ queries = i - 1
                   /\ error' = <<before[1] - after[1], before[2] - after[2],
                                 before[3] - after[3]>>
                   /\ image' = [image EXCEPT !.data[i] =
                                    update_pixel_with_color(C, @, after)]
                   /\ k' = 1 /\ x' = x /\ y' = y
        /\ pc = "diffuse" =>
               LET t  == taps[k]
                   nx == x + t[1]
                   ny == y + t[2]
                   at == ny * W + nx + 1
                   part == <<(error[1] * t[3]) \div den, (error[2] * t[3]) \div den,
                             (error[3] * t[3]) \div den>>
               IN  /\ k \in 1..Len(taps)
                   /\ error' = error
                   /\ IF nx >= 0 /\ nx < W /\ ny >= 0 /\ ny < H
                      THEN image' = [image EXCEPT !.data[at] =
                               update_pixel_with_color(C, @,
                                   add(pixel_to_color(C, @), part))]
                      ELSE image' = image
                   /\ IF k < Len(taps)
                      THEN k' = k + 1 /\ x' = x /\ y' = y /\ pc' = "diffuse"
                      ELSE IF i < W * H
                      THEN <<x', y'>> = RasterSucc(image, x, y) /\ pc' = "loop"
                      ELSE pc' = "returned" /\ queries = W * H

\* C12: AlgoFloydSteinberg::run visits every pixel once in raster order,
\* quantizes the stored value, and hands the error on with the weights 7/16
\* to (x+1, y), 3/16 to (x-1, y+1), 5/16 to (x, y+1) and 1/16 to (x+1, y+1),
\* each added onto the neighbour's stored value and written back at once; a
\* neighbour inside the raster gets its fixed weight whether or not other
\* neighbours are outside.
C12_FloydSteinbergProcedure ==
    [][ A = "AlgoFloydSteinberg" =>
            DiffusionProcedure(<< <<1, 0, 7>>, <<-1, 1, 3>>, <<0, 1, 5>>, <<1, 1, 1>> >>, 16)
      ]_vars

\* in the first column of the first row the call for (x-1, y+1) was dropped
\* and the call for (x, y+1) has changed the pixel below, after the right
\* neighbour had already been changed in the same iteration
C12_Witness ==
    /\ pc = "diffuse"
    /\ A = "AlgoFloydSteinberg"
    /\ x = 0 /\ y = 0
    /\ k = 4
    /\ image.width > 1 /\ image.height > 1
    /\ image.data[2] # input.data[2]
    /\ image.data[image.width + 1] # input.data[image.width + 1]

\* the sum of the parts error * numerator / den over taps[j..]
RECURSIVE SumOfParts(_, _, _, _)
SumOfParts(taps, den, err, j) ==
    IF j > Len(taps) THEN Zero3
    ELSE add(<<(err[1] * taps[j][3]) \div den, (err[2] * taps[j][3]) \div den,
               (err[3] * taps[j][3]) \div den>>,
             SumOfParts(taps, den, err, j + 1))

\* the taps of the Stucki kernel as offsets and numerators over 42
StuckiTaps ==
    << <<1, 0, 8>>, <<2, 0, 4>>,
       <<-2, 1, 2>>, <<-1, 1, 4>>, <<0, 1, 8>>, <<1, 1, 4>>, <<2, 1, 2>>,
       <<-2, 2, 1>>, <<-1, 2, 2>>, <<0, 2, 4>>, <<1, 2, 2>>, <<2, 2, 1>> >>

\* C13: AlgoStucki::run follows the same procedure with twelve neighbours
\* and the numerators 8 4 / 2 4 8 4 2 / 1 2 4 2 1 over 42; the weights sum
\* to 42/42, so where all twelve neighbours are inside the raster the parts
\* handed on add up to the whole error; near an edge the inside neighbours
\* keep their fixed weights.
C13_StuckiProcedure ==
    [][ A = "AlgoStucki" =>
            /\ DiffusionProcedure(StuckiTaps, 42)
            /\ (/\ pc = "loop" /\ pc' = "diffuse"
                /\ x >= 2 /\ x + 2 < image.width /\ y + 2 < image.height) =>
                   SumOfParts(StuckiTaps, 42, error', 1) = error'
      ]_vars

\* the pixel in the middle of the first row of a raster five wide and three
\* high is being diffused: all twelve neighbours are inside, eleven calls
\* are done and the one two columns to the right has changed its pixel
C13_Witness ==
    /\ pc = "diffuse"
    /\ A = "AlgoStucki"
    /\ x = 2 /\ y = 0
    /\ k = 12
    /\ image.width >= 5 /\ image.height >= 3
    /\ error # Zero3
    /\ image.data[5] # input.data[5]

\* the pixel holds the 8-bit reconstruction of some palette entry
IsPaletteColour(pixel) ==
    \E j \in 1..Len(palette) : pixel = update_pixel_with_color(C, pixel, palette[j])

\* C14: in the two diffusion algorithms a diffusion step changes only pixels
\* that come after the current one in raster order, and the visit of a pixel
\* changes that pixel only; so a pixel is never changed again once it has
\* been visited and written, and when the run returns every pixel holds the
\* 8-bit reconstruction of a palette entry.
C14_VisitedPixelsAreFinal ==
    [][ (A \in {"AlgoFloydSteinberg", "AlgoStucki"} /\ pc \in {"loop", "diffuse"}) =>
            LET cur == y * image.width + x + 1
            IN  /\ \A i \in 1..(image.width * image.height) :
                       (i < cur \/ (i = cur /\ pc = "diffuse")) =>
                           image'.data[i] = image.data[i]
                /\ pc = "loop" =>
                       \A i \in 1..(image.width * image.height) :
                           i > cur => image'.data[i] = image.data[i]
                /\ pc' \in {"loop", "diffuse", "returned"} =>
                       \A i \in 1..(image.width * image.height) :
                           (i <= cur) => IsPaletteColour(image'.data[i])
                /\ pc' = "returned" =>
                       \A i \in 1..(image.width * image.height) :
                           IsPaletteColour(image'.data[i])
      ]_vars

\* a Stucki run over at least four pixels has returned a raster that differs
\* from the per-pixel quantization of its input: diffusion has changed what
\* later pixels were quantized to
C14_Witness ==
    /\ pc = "returned"
    /\ A = "AlgoStucki"
    /\ image.width * image.height >= 4
    /\ Len(palette) > 1
    /\ image # ThresholdOutput(C, D, palette, input)

\* what a pixel is quantized to when nothing but the pixel itself, the
\* palette and the metric is looked at
QuantizedAlone(pixel) ==
    update_pixel_with_color(C, pixel, nearest(palette, D, pixel_to_color(C, pixel)).val)

\* C15: the output of AlgoThreshold::run at a position is palette.nearest of
\* the input colour at that position and depends on no other pixel: at any
\* moment of a run the pixels already visited hold the quantization of their
\* own input pixel and the others still hold their input, so the traversal
\* order does not matter and inputs that agree at a position give the same
\* output there.
C15_ThresholdIsPerPixel ==
    (A = "AlgoThreshold" /\ pc \in {"loop", "returned", "exit"}) =>
        LET cur == y * image.width + x + 1
        IN  \A i \in 1..(image.width * image.height) :
                image.data[i] =
                    IF pc = "loop" /\ i >= cur THEN input.data[i]
                    ELSE QuantizedAlone(input.data[i])

\* a threshold run over at least four pixels with a palette of several
\* colours has returned a raster that differs from its input
C15_Witness ==
    /\ pc = "returned"
    /\ A = "AlgoThreshold"
    /\ image.width * image.height >= 4
    /\ Len(palette) > 1
    /\ image # input
    /\ \E i, j \in 1..(image.width * image.height) : image.data[i] # image.data[j]

\* the state of a generator created from the fixed seed and advanced n times
RECURSIVE Draws(_)
Draws(n) == IF n = 0 THEN seed_from_u64(0) ELSE NextRng(Draws(n - 1))

\* C16: AlgoRandom::run creates one generator from a fixed constant when it
\* starts and goes through the pixels in raster order; at each pixel it draws
\* three offsets, for channel 0, 1 and 2 in that order, each within
\* [-1.0, 1.0], adds each to its channel of the pixel's working colour and
\* quantizes the sum; a run over W x H pixels has advanced the generator
\* exactly 3 * W * H times.
C16_ThreeDrawsPerPixel ==
    [][ A = "AlgoRandom" =>
            LET W == image.width
                H == image.height
                i == y * W + x + 1
            IN  /\ pc = "algo" => rng' = Draws(0)
                /\ pc = "loop" =>
                       LET d1  == NextRng(rng)
                           d2  == NextRng(d1)
                           d3  == NextRng(d2)
                           off == <<Sample(d1), Sample(d2), Sample(d3)>>
                           sum == add(pixel_to_color(C, image.data[i]), off)
                       IN  /\ queries = i - 1
                           /\ rng = Draws(3 * (i - 1))
                           /\ rng' = Draws(3 * i)
                           /\ \A c \in 1..3 : off[c] >= -One /\ off[c] <= One
                           /\ pc' # "panic" =>
                                  image' = [image EXCEPT !.data[i] =
                                      update_pixel_with_color(C, @,
                                          nearest(palette, D, sum).val)]
                /\ (pc \in {"algo", "loop"} /\ pc' = "returned") =>
                       rng' = Draws(3 * W * H)
      ]_vars

\* a random run over at least four pixels has returned, the generator has
\* been advanced three times per pixel, and the offsets have changed what
\* some pixel was quantized to
C16_Witness ==
    /\ pc = "returned"
    /\ A = "AlgoRandom"
    /\ image.width * image.height >= 4
    /\ Len(palette) > 1
    /\ rng = Draws(3 * image.width * image.height)
    /\ image # ThresholdOutput(C, D, palette, input)

\* every channel of the colour lies in [0.0, 1.0]
InRange(color) == \A c \in 1..3 : color[c] >= 0 /\ color[c] <= One

\* the colour with every channel moved to the nearest value in [0.0, 1.0]
Clamped(color) ==
    [c \in 1..3 |-> IF color[c] < 0 THEN 0 ELSE IF color[c] > One THEN One ELSE color[c]]

\* the metric wrapped by a clamped difference type
Inner(Dt) ==
    CASE Dt = "DiffClamp<DiffEuclid>" -> "DiffEuclid"
      [] Dt = "DiffClamp<DiffManhattan>" -> "DiffManhattan"

\* C17: DiffClamp<D>::diff(a, b) is D::diff(clamp(a), clamp(b)), which is
\* D::diff(a, b) when both operands are in range; an unclamped metric never
\* clamps: with one operand in range and the other outside, it returns more
\* than it would on the clamped operand.
C17_ClampedDiffClampsBothOperands ==
    (pc = "diff_ret" /\ D \in ModelledDiffs) =>
        LET a == target.a
            b == target.b
        IN  IF D \in {"DiffClamp<DiffEuclid>", "DiffClamp<DiffManhattan>"}
            THEN /\ ret.val = Diff(Inner(D), Clamped(a), Clamped(b))
                 /\ (InRange(a) /\ InRange(b)) => ret.val = Diff(Inner(D), a, b)
            ELSE (InRange(a) /\ ~InRange(b)) =>
                     /\ ret.val # Diff(D, a, Clamped(b))
                     /\ WLeq(Diff(D, a, Clamped(b)), ret.val)

\* a clamped Euclidean difference of two colours outside the range has
\* returned a value other than the unclamped one
C17_Witness ==
    /\ pc = "diff_ret"
    /\ D = "DiffClamp<DiffEuclid>"
    /\ ~InRange(target.a)
    /\ ~InRange(target.b)
    /\ ret.val # Diff("DiffEuclid", target.a, target.b)

\* the value returned by a diff call is below zero
IsNegative(d) == IF "neg" \in DOMAIN d THEN d.neg /\ d.mag # <<>> ELSE d.hi < 0

\* C18: every Difference implementation returns a value that is not
\* negative, for every pair of working colours, channels outside [0.0, 1.0]
\* included; this covers DiffEuclid, DiffManhattan and the
\* DiffManhattanSquare of the earlier snapshot.
C18_DiffNotNegative ==
    pc = "diff_ret" => ~IsNegative(ret.val)

\* the metrics of the current source return a value that is not negative
C18_CurrentDiffsNotNegative ==
    (pc = "diff_ret" /\ D \in ModelledDiffs) => ~IsNegative(ret.val)

\* the device value v is what the working channel value c is written back
\* as: 0 for c at or below 0.0, 255 for c at or above 1.0, and the nearest
\* step in between
WrittenSaturated(c, v) ==
    /\ v \in 0..255
    /\ c <= 0 => v = 0
    /\ c >= One => v = 255
    /\ (c > 0 /\ c < One) => (2 * (v * Unit - c) <= Unit /\ 2 * (c - v * Unit) <= Unit)

\* C19: writing a working colour back to a pixel never fails and saturates:
\* a channel below the range is stored as 0 and one above it as 255, without
\* wrapping modulo 256 and without a panic.  Every write of a diffusion step
\* (neighbour plus error share, which may leave the range) and every write
\* of a quantized colour (after random perturbation as well) is such a
\* write, and every channel of the raster stays in 0..255.
C19_WriteBackSaturates ==
    [][ /\ image' # Unloaded =>
               \A i \in 1..(image'.width * image'.height) :
                   \A c \in 1..3 : image'.data[i][c] \in 0..255
        /\ pc = "diffuse" =>
               LET t  == Kernel(A)[k]
                   nx == x + t.dx
                   ny == y + t.dy
                   at == ny * image.width + nx + 1
               IN  /\ pc' # "panic"
                   /\ (nx >= 0 /\ nx < image.width /\ ny >= 0 /\ ny < image.height) =>
                          \A c \in 1..3 :
                              WrittenSaturated(
                                  image.data[at][c] * Unit + (error[c] * t.num) \div Base(A),
                                  image'.data[at][c])
        /\ (pc = "loop" /\ pc' = "panic") => Len(palette) = 0
      ]_vars

\* in the first row of a Floyd-Steinberg run the right neighbour, still at
\* its input value, has just received 7/16 of an error that took one of its
\* channels above 1.0, and that channel is stored as 255
C19_Witness ==
    /\ pc = "diffuse"
    /\ A = "AlgoFloydSteinberg"
    /\ y = 0
    /\ k = 2
    /\ x + 1 < image.width
    /\ \E c \in 1..3 :
           /\ input.data[x + 2][c] * Unit + (error[c] * 7) \div 16 > One
           /\ image.data[x + 2][c] = 255

====
